---- MODULE Spec2Model ----
(***************************************************************************)
(* Model of the compliance calculation engine of nozzle_calculator.py:     *)
(* get_ug16_min_thickness, the three thickness formulas, the stress and    *)
(* load analyzers and the orchestrator calculate_asme_compliance.          *)
(*                                                                         *)
(* Python numbers are modelled as exact rationals [n, d] in lowest terms   *)
(* (d > 0).  None is the record NoneVal.  A raised exception is a record   *)
(* [exc, msg] where msg is str(e).  Every Python operator is modelled by   *)
(* an operator that either yields a value or the exception the operator    *)
(* raises; an exception in an operand propagates (left operand first).     *)
(***************************************************************************)
EXTENDS Integers, Sequences, FiniteSets, TLC

VARIABLES inputs, results, pc, raised, previous

vars == <<inputs, results, pc, raised, previous>>

(***************************************************************************)
(* Exact rational arithmetic.                                              *)
(***************************************************************************)
Abs(x) == IF x < 0 THEN -x ELSE x

RECURSIVE GCD(_, _)
GCD(a, b) == IF b = 0 THEN a ELSE GCD(b, a % b)

R(n, d) ==
  LET g == GCD(Abs(n), Abs(d))
      s == IF d < 0 THEN -1 ELSE 1
  IN  [n |-> (s * n) \div g, d |-> (s * d) \div g]

Int2R(k) == [n |-> k, d |-> 1]

RatAdd(a, b) ==
  LET g == GCD(a.d, b.d)
  IN  R(a.n * (b.d \div g) + b.n * (a.d \div g), (a.d \div g) * b.d)

RatNeg(a) == [n |-> -a.n, d |-> a.d]

RatSub(a, b) == RatAdd(a, RatNeg(b))

RatMul(a, b) ==
  LET g1 == GCD(Abs(a.n), b.d)
      g2 == GCD(Abs(b.n), a.d)
  IN  R((a.n \div g1) * (b.n \div g2), (a.d \div g2) * (b.d \div g1))

\* b.n # 0
RatInv(b) == IF b.n < 0 THEN [n |-> -b.d, d |-> -b.n] ELSE [n |-> b.d, d |-> b.n]

RatDiv(a, b) == RatMul(a, RatInv(b))

RatLe(a, b) ==
  LET g == GCD(a.d, b.d)
  IN  a.n * (b.d \div g) <= b.n * (a.d \div g)

RatLt(a, b) == ~RatLe(b, a)

\* floor(n/d * 10^digits), by long division (n >= 0, d > 0)
RECURSIVE LongDiv(_, _, _, _)
LongDiv(q, r, d, digits) ==
  IF digits = 0 THEN q
  ELSE LongDiv(q * 10 + ((r * 10) \div d), (r * 10) % d, d, digits - 1)

FloorScaled(a, digits) == LongDiv(a.n \div a.d, a.n % a.d, a.d, digits)

\* largest k with k*k <= m, by bisection on lo..hi
RECURSIVE ISqrtIn(_, _, _)
ISqrtIn(m, lo, hi) ==
  IF lo >= hi THEN lo
  ELSE LET mid == (lo + hi + 1) \div 2
       IN  IF mid <= m \div mid THEN ISqrtIn(m, mid, hi) ELSE ISqrtIn(m, lo, mid - 1)

ISqrt(m) == IF m = 0 THEN 0 ELSE ISqrtIn(m, 1, m)

(***************************************************************************)
(* Python values and operators.                                            *)
(***************************************************************************)
NoneVal == [none |-> TRUE]

IsExc(v) == "exc" \in DOMAIN v

IsNum(v) == "n" \in DOMAIN v

TypeError == [exc |-> "TypeError", msg |-> "unsupported operand type(s)"]

ZeroDivisionError == [exc |-> "ZeroDivisionError", msg |-> "division by zero"]

KeyError(k) == [exc |-> "KeyError", msg |-> "'" \o k \o "'"]

ValueError(m) == [exc |-> "ValueError", msg |-> m]

PyBool(b) == [bool |-> b]

\* inputs[k]
Get(dict, k) == IF k \in DOMAIN dict THEN dict[k] ELSE KeyError(k)

PyAdd(a, b) ==
  IF IsExc(a) THEN a ELSE IF IsExc(b) THEN b
  ELSE IF ~IsNum(a) \/ ~IsNum(b) THEN TypeError ELSE RatAdd(a, b)

PySub(a, b) ==
  IF IsExc(a) THEN a ELSE IF IsExc(b) THEN b
  ELSE IF ~IsNum(a) \/ ~IsNum(b) THEN TypeError ELSE RatSub(a, b)

PyMul(a, b) ==
  IF IsExc(a) THEN a ELSE IF IsExc(b) THEN b
  ELSE IF ~IsNum(a) \/ ~IsNum(b) THEN TypeError ELSE RatMul(a, b)

PyDiv(a, b) ==
  IF IsExc(a) THEN a ELSE IF IsExc(b) THEN b
  ELSE IF ~IsNum(a) \/ ~IsNum(b) THEN TypeError
  ELSE IF b.n = 0 THEN ZeroDivisionError ELSE RatDiv(a, b)

\* a <= b
PyLe(a, b) ==
  IF IsExc(a) THEN a ELSE IF IsExc(b) THEN b
  ELSE IF ~IsNum(a) \/ ~IsNum(b) THEN TypeError ELSE PyBool(RatLe(a, b))

\* a >= b
PyGe(a, b) == PyLe(b, a)

\* max(a, b): keeps a unless b > a
PyMax(a, b) ==
  IF IsExc(a) THEN a ELSE IF IsExc(b) THEN b
  ELSE IF ~IsNum(a) \/ ~IsNum(b) THEN TypeError
  ELSE IF RatLt(a, b) THEN b ELSE a

\* x ** 2
PySquare(a) == PyMul(a, a)

\* math.pi, to the rational 355/113
Pi == R(355, 113)

\* math.sqrt, rounded down to one decimal place (exact on k*k)
MathSqrt(a) ==
  IF IsExc(a) THEN a
  ELSE IF ~IsNum(a) THEN TypeError
  ELSE IF a.n < 0 THEN ValueError("math domain error")
  ELSE R(ISqrt(FloorScaled(a, 2)), 10)

\* Join with a blank for every separator
RECURSIVE JoinBlank(_, _)
JoinBlank(parts, sep) ==
  IF Len(parts) = 0 THEN ""
  ELSE IF Len(parts) = 1 THEN parts[1]
  ELSE parts[1] \o " " \o JoinBlank(Tail(parts), sep)

\* sep.join(parts)
RECURSIVE Join(_, _)
Join(parts, sep) ==
  IF Len(parts) = 0 THEN ""
  ELSE IF Len(parts) = 1 THEN parts[1]
  ELSE parts[1] \o sep \o Join(Tail(parts), sep)

(***************************************************************************)
(* Constants and configuration.                                            *)
(***************************************************************************)
UG16_MINIMUMS ==
  [e \in {"Pressure Vessel (Standard)", "Unfired Steam Boiler", "Non-Code Construction"} |->
     CASE e = "Pressure Vessel (Standard)" -> R(15, 10)
       [] e = "Unfired Steam Boiler"       -> R(635, 100)
       [] e = "Non-Code Construction"      -> R(0, 1)]

\* (nps, dn, od, thickness); the labels 1 1/4, 1 1/2, 2 1/2 and 3 1/2 are
\* spelled with fraction glyphs in the source
UG45_TABLE ==
  << <<"1/8", 6, R(1029, 100), R(151, 100)>>,    <<"1/4", 8, R(1372, 100), R(196, 100)>>,
     <<"3/8", 10, R(1712, 100), R(202, 100)>>,   <<"1/2", 15, R(2134, 100), R(242, 100)>>,
     <<"3/4", 20, R(2667, 100), R(251, 100)>>,   <<"1", 25, R(3340, 100), R(296, 100)>>,
     <<"1 1/4", 32, R(4216, 100), R(312, 100)>>, <<"1 1/2", 40, R(4826, 100), R(322, 100)>>,
     <<"2", 50, R(6033, 100), R(342, 100)>>,     <<"2 1/2", 65, R(7303, 100), R(452, 100)>>,
     <<"3", 80, R(8890, 100), R(480, 100)>>,     <<"3 1/2", 90, R(10160, 100), R(502, 100)>>,
     <<"4", 100, R(11430, 100), R(527, 100)>>,   <<"5", 125, R(14130, 100), R(573, 100)>>,
     <<"6", 150, R(16828, 100), R(622, 100)>>,   <<"8", 200, R(21908, 100), R(716, 100)>>,
     <<"10", 250, R(27305, 100), R(811, 100)>>,  <<"12", 300, R(32385, 100), R(834, 100)>> >>

ALLOWABLE_STRESS_FACTOR == R(15, 10)

(***************************************************************************)
(* Helper functions.                                                       *)
(***************************************************************************)
\* get_ug16_min_thickness counting custom_min whatever its flag
get_ug16_min_thicknessUnflagged(equipment_type, service_type, custom_min_enabled, custom_min) ==
  LET equipment_min == IF equipment_type \in DOMAIN UG16_MINIMUMS
                       THEN UG16_MINIMUMS[equipment_type] ELSE R(0, 1)
      service_min   == IF service_type \in {"Water", "Compressed Air", "Steam"}
                       THEN R(25, 10) ELSE R(0, 1)
      custom        == custom_min
      min_thickness == PyMax(PyMax(equipment_min, service_min), custom)
      part1 == IF RatLt(R(0, 1), equipment_min)
               THEN <<"UG-16 for " \o equipment_type>> ELSE <<>>
      part2 == IF RatLt(R(0, 1), service_min)
               THEN <<"UG-16(b) for " \o service_type>> ELSE <<>>
      part3 == IF custom_min_enabled /\ RatLt(R(0, 1), custom)
               THEN <<"Custom specified minimum">> ELSE <<>>
      ref_parts == part1 \o part2 \o part3
      ref == IF Len(ref_parts) > 0 THEN Join(ref_parts, " + ") ELSE "No UG-16 requirement"
  IN  IF IsExc(min_thickness) THEN min_thickness
      ELSE [min_thickness |-> min_thickness, ref |-> ref]

get_ug16_min_thickness(equipment_type, service_type, custom_min_enabled, custom_min) ==
  LET equipment_min == IF equipment_type \in DOMAIN UG16_MINIMUMS
                       THEN UG16_MINIMUMS[equipment_type] ELSE R(0, 1)
      service_min   == IF service_type \in {"Water", "Compressed Air", "Steam"}
                       THEN R(25, 10) ELSE R(0, 1)
      custom        == IF custom_min_enabled THEN custom_min ELSE R(0, 1)
      min_thickness == PyMax(PyMax(equipment_min, service_min), custom)
      part1 == IF RatLt(R(0, 1), equipment_min)
               THEN <<"UG-16 for " \o equipment_type>> ELSE <<>>
      part2 == IF RatLt(R(0, 1), service_min)
               THEN <<"UG-16(b) for " \o service_type>> ELSE <<>>
      part3 == IF custom_min_enabled /\ RatLt(R(0, 1), custom)
               THEN <<"Custom specified minimum">> ELSE <<>>
      ref_parts == part1 \o part2 \o part3
      ref == IF Len(ref_parts) > 0 THEN Join(ref_parts, " + ") ELSE "No UG-16 requirement"
  IN  IF IsExc(min_thickness) THEN min_thickness
      ELSE [min_thickness |-> min_thickness, ref |-> ref]

(***************************************************************************)
(* Calculation engine.                                                     *)
(***************************************************************************)
\* calculate_shell_thickness with S*E for 2*S*E
calculate_shell_thicknessRadius(P, D, S, E) ==
  PyDiv(PyMul(P, D), PySub(PyMul(S, E), PyMul(R(12, 10), P)))

calculate_shell_thickness(P, D, S, E) ==
  PyDiv(PyMul(P, D), PySub(PyMul(PyMul(Int2R(2), S), E), PyMul(R(12, 10), P)))

calculate_head_thickness(P, D, S, E, head_type) ==
  IF head_type = "Hemispherical"
  THEN PyDiv(PyMul(P, D), PySub(PyMul(PyMul(Int2R(4), S), E), PyMul(R(4, 10), P)))
  ELSE IF head_type = "Ellipsoidal"
  THEN PyDiv(PyMul(P, D), PySub(PyMul(PyMul(Int2R(2), S), E), PyMul(R(2, 10), P)))
  ELSE IF head_type = "Torispherical"
  THEN PyDiv(PyMul(PyMul(R(885, 1000), P), D), PySub(PyMul(S, E), PyMul(R(1, 10), P)))
  ELSE ValueError("Invalid head type")

calculate_nozzle_thickness(P, d, S, E) ==
  PyDiv(PyMul(P, d), PySub(PyMul(PyMul(Int2R(2), S), E), PyMul(R(12, 10), P)))

\* except Exception as e: results['errors'].append(prefix + str(e)), on the
\* analyzer's own results dict; the lookup of 'errors' raises KeyError when
\* that dict has no such key
AnalyzerExcept(local, prefix, e) ==
  IF "errors" \in DOMAIN local
  THEN [local EXCEPT !["errors"] = Append(@, prefix \o e.msg)]
  ELSE KeyError("errors")

perform_stress_analysis(in) ==
  LET local == [stresses |-> [k \in {} |-> 0]]
      Rr    == PyDiv(Get(in, "D"), Int2R(2))
      shell == PyDiv(PyMul(Get(in, "P_int"), Rr),
                     PyMul(PySub(Get(in, "t"), Get(in, "CA")), Get(in, "E_shell")))
      head  == PyDiv(PyMul(Get(in, "P_int"), Get(in, "D")),
                     PyMul(PyMul(Int2R(4), PySub(Get(in, "th_head"), Get(in, "CA"))),
                           Get(in, "E_head")))
      nozzle == PyDiv(PyMul(Get(in, "P_int"), PyDiv(Get(in, "d"), Int2R(2))),
                      PyMul(PySub(Get(in, "tn"), Get(in, "CA")), Get(in, "E_nozzle")))
  IN  IF IsExc(shell) THEN AnalyzerExcept(local, "Stress analysis error: ", shell)
      ELSE IF IsExc(head)
      THEN AnalyzerExcept([stresses |-> [shell |-> shell]], "Stress analysis error: ", head)
      ELSE IF IsExc(nozzle)
      THEN AnalyzerExcept([stresses |-> [shell |-> shell, head |-> head]],
                          "Stress analysis error: ", nozzle)
      ELSE [stresses |-> [shell |-> shell, head |-> head, nozzle |-> nozzle]]

\* perform_load_analysis reporting a torsional stress from Mz as well
perform_load_analysisTorsion(in) ==
  LET local == [loads |-> [k \in {} |-> 0]]
      dn == Get(in, "d")
      tn == PySub(Get(in, "tn"), Get(in, "CA"))
      axial_stress == PyDiv(Get(in, "Fz"), PyMul(PyMul(Pi, dn), tn))
      bending_stress ==
        PyDiv(PyMul(Int2R(4), MathSqrt(PyAdd(PySquare(Get(in, "Mx")), PySquare(Get(in, "My"))))),
              PyMul(PyMul(Pi, PySquare(dn)), tn))
      shear_stress ==
        PyDiv(MathSqrt(PyAdd(PySquare(Get(in, "Fx")), PySquare(Get(in, "Fy")))),
              PyMul(PyMul(Pi, dn), tn))
      equivalent_stress ==
        MathSqrt(PyAdd(PySquare(PyAdd(axial_stress, bending_stress)),
                       PyMul(Int2R(3), PySquare(shear_stress))))
      allowable == PyMul(Get(in, "S_nozzle"), ALLOWABLE_STRESS_FACTOR)
      status == PyLe(equivalent_stress, allowable)
      torsion == PyDiv(PyMul(Int2R(2), Get(in, "Mz")), PyMul(PyMul(Pi, PySquare(dn)), tn))
      e == IF IsExc(dn) THEN dn ELSE IF IsExc(tn) THEN tn
           ELSE IF IsExc(axial_stress) THEN axial_stress
           ELSE IF IsExc(bending_stress) THEN bending_stress
           ELSE IF IsExc(shear_stress) THEN shear_stress
           ELSE IF IsExc(equivalent_stress) THEN equivalent_stress
           ELSE IF IsExc(allowable) THEN allowable
           ELSE IF IsExc(torsion) THEN torsion
           ELSE status
  IN  IF IsExc(e) THEN AnalyzerExcept(local, "Load analysis error: ", e)
      ELSE [loads |-> [axial |-> axial_stress, bending |-> bending_stress,
                       shear |-> shear_stress, equivalent |-> equivalent_stress,
                       allowable |-> allowable, status |-> status.bool,
                       torsion |-> torsion]]

perform_load_analysis(in) ==
  LET local == [loads |-> [k \in {} |-> 0]]
      dn == Get(in, "d")
      tn == PySub(Get(in, "tn"), Get(in, "CA"))
      axial_stress == PyDiv(Get(in, "Fz"), PyMul(PyMul(Pi, dn), tn))
      bending_stress ==
        PyDiv(PyMul(Int2R(4), MathSqrt(PyAdd(PySquare(Get(in, "Mx")), PySquare(Get(in, "My"))))),
              PyMul(PyMul(Pi, PySquare(dn)), tn))
      shear_stress ==
        PyDiv(MathSqrt(PyAdd(PySquare(Get(in, "Fx")), PySquare(Get(in, "Fy")))),
              PyMul(PyMul(Pi, dn), tn))
      equivalent_stress ==
        MathSqrt(PyAdd(PySquare(PyAdd(axial_stress, bending_stress)),
                       PyMul(Int2R(3), PySquare(shear_stress))))
      allowable == PyMul(Get(in, "S_nozzle"), ALLOWABLE_STRESS_FACTOR)
      status == PyLe(equivalent_stress, allowable)
      e == IF IsExc(dn) THEN dn ELSE IF IsExc(tn) THEN tn
           ELSE IF IsExc(axial_stress) THEN axial_stress
           ELSE IF IsExc(bending_stress) THEN bending_stress
           ELSE IF IsExc(shear_stress) THEN shear_stress
           ELSE IF IsExc(equivalent_stress) THEN equivalent_stress
           ELSE IF IsExc(allowable) THEN allowable
           ELSE status
  IN  IF IsExc(e) THEN AnalyzerExcept(local, "Load analysis error: ", e)
      ELSE [loads |-> [axial |-> axial_stress, bending |-> bending_stress,
                       shear |-> shear_stress, equivalent |-> equivalent_stress,
                       allowable |-> allowable, status |-> status.bool]]

(***************************************************************************)
(* calculate_asme_compliance, one action per section of its try block and  *)
(* one for its except clause.                                              *)
(***************************************************************************)
EmptyDict == [k \in {} |-> 0]

required_keys ==
  <<"P_int", "D", "d", "t", "tn", "th_head", "CA",
    "nozzle_od", "E_shell", "E_head", "E_nozzle",
    "S_shell", "S_head", "S_nozzle", "equipment_type",
    "head_type", "Fx", "Fy", "Fz", "Mx", "My", "Mz",
    "service_type", "custom_min_enabled", "custom_min">>

InitialResults ==
  [steps |-> <<>>, warnings |-> <<>>, errors |-> <<>>,
   ug16 |-> EmptyDict, ug37 |-> EmptyDict, ug45 |-> EmptyDict, head |-> EmptyDict,
   stresses |-> EmptyDict, loads |-> EmptyDict, calculations |-> EmptyDict]

\* dict.update(other)
Update(dict, other) ==
  [k \in DOMAIN dict \cup DOMAIN other |-> IF k \in DOMAIN other THEN other[k] ELSE dict[k]]

\* dict[k] = v
SetItem(dict, k, v) ==
  [j \in DOMAIN dict \cup {k} |-> IF j = k THEN v ELSE dict[j]]

\* raise e inside the try block
Raise(e) ==
  /\ raised' = e
  /\ pc' = "except"
  /\ UNCHANGED <<inputs, results, previous>>

Validate ==
  /\ pc = "validate"
  /\ LET missing == SelectSeq(required_keys, LAMBDA key : key \notin DOMAIN inputs)
     IN  IF Len(missing) > 0
         THEN Raise(ValueError("Missing inputs: " \o Join(missing, ", ")))
         ELSE /\ pc' = "shell"
              /\ UNCHANGED <<inputs, results, raised, previous>>

ShellCalculations ==
  /\ pc = "shell"
  /\ LET required == calculate_shell_thickness(Get(inputs, "P_int"), Get(inputs, "D"),
                                               Get(inputs, "S_shell"), Get(inputs, "E_shell"))
         actual   == PySub(Get(inputs, "t"), Get(inputs, "CA"))
     IN  IF IsExc(required) THEN Raise(required)
         ELSE IF IsExc(actual) THEN Raise(actual)
         ELSE /\ results' = [results EXCEPT !.calculations =
                               SetItem(@, "shell", [required |-> required, actual |-> actual])]
              /\ pc' = "head"
              /\ UNCHANGED <<inputs, raised, previous>>

HeadCalculations ==
  /\ pc = "head"
  /\ LET required == calculate_head_thickness(Get(inputs, "P_int"), Get(inputs, "D"),
                                              Get(inputs, "S_head"), Get(inputs, "E_head"),
                                              Get(inputs, "head_type"))
         actual   == PySub(Get(inputs, "th_head"), Get(inputs, "CA"))
     IN  IF IsExc(required) THEN Raise(required)
         ELSE IF IsExc(actual) THEN Raise(actual)
         ELSE /\ results' = [results EXCEPT !.calculations =
                               SetItem(@, "head", [required |-> required, actual |-> actual])]
              /\ pc' = "nozzle"
              /\ UNCHANGED <<inputs, raised, previous>>

NozzleCalculations ==
  /\ pc = "nozzle"
  /\ LET required == calculate_nozzle_thickness(Get(inputs, "P_int"), Get(inputs, "d"),
                                                Get(inputs, "S_nozzle"), Get(inputs, "E_nozzle"))
         actual   == PySub(Get(inputs, "tn"), Get(inputs, "CA"))
     IN  IF IsExc(required) THEN Raise(required)
         ELSE IF IsExc(actual) THEN Raise(actual)
         ELSE /\ results' = [results EXCEPT !.calculations =
                               SetItem(@, "nozzle", [required |-> required, actual |-> actual])]
              /\ pc' = "ug16"
              /\ UNCHANGED <<inputs, raised, previous>>

\* one component entry of results['ug16']
UG16Entry(min_thickness, nominal) ==
  LET actual == PySub(nominal, Get(inputs, "CA"))
      status == PyGe(PySub(nominal, Get(inputs, "CA")), min_thickness)
  IN  IF IsExc(actual) THEN actual
      ELSE IF IsExc(status) THEN status
      ELSE [required |-> min_thickness, actual |-> actual, status |-> status.bool]

UG16MinimumThickness ==
  /\ pc = "ug16"
  /\ LET ret == get_ug16_min_thickness(Get(inputs, "equipment_type"), Get(inputs, "service_type"),
                                       Get(inputs, "custom_min_enabled"), Get(inputs, "custom_min"))
     IN  IF IsExc(ret) THEN Raise(ret)
         ELSE LET shell  == UG16Entry(ret.min_thickness, Get(inputs, "t"))
                  head   == UG16Entry(ret.min_thickness, Get(inputs, "th_head"))
                  nozzle == UG16Entry(ret.min_thickness, Get(inputs, "tn"))
              IN  IF IsExc(shell) THEN Raise(shell)
                  ELSE IF IsExc(head) THEN Raise(head)
                  ELSE IF IsExc(nozzle) THEN Raise(nozzle)
                  ELSE /\ results' = [results EXCEPT !.ug16 =
                                        [shell |-> shell, head |-> head, nozzle |-> nozzle,
                                         reference |-> ret.ref]]
                       /\ pc' = "ug45"
                       /\ UNCHANGED <<inputs, raised, previous>>

\* sorted(table, key=lambda x: x[2], reverse=True)
RECURSIVE SortedByOdReverse(_)
SortedByOdReverse(table) ==
  IF Len(table) <= 1 THEN table
  ELSE LET rest == SortedByOdReverse(Tail(table))
           k == Cardinality({i \in 1..Len(rest) : ~RatLt(rest[i][3], table[1][3])})
       IN  SubSeq(rest, 1, k) \o <<table[1]>> \o SubSeq(rest, k + 1, Len(rest))

\* sorted(table, key=lambda x: x[2]): a stable insertion sort on the od column
RECURSIVE InsertByOd(_, _)
InsertByOd(seq, x) ==
  IF Len(seq) = 0 THEN <<x>>
  ELSE IF RatLt(x[3], seq[1][3]) THEN <<x>> \o seq
  ELSE <<seq[1]>> \o InsertByOd(Tail(seq), x)

RECURSIVE SortedByOd(_)
SortedByOd(table) ==
  IF Len(table) = 0 THEN <<>>
  ELSE InsertByOd(SortedByOd(SubSeq(table, 1, Len(table) - 1)), table[Len(table)])

\* ScanTable testing od > nozzle_od
RECURSIVE ScanTableStrict(_, _, _, _)
ScanTableStrict(sorted_table, i, nozzle_od, CA) ==
  IF i > Len(sorted_table)
  THEN IF Len(sorted_table) = 0
       THEN [exc |-> "IndexError", msg |-> "list index out of range"]
       ELSE [locals   |-> {"nps", "dn", "od", "thickness", "tn_table"},
             nps      |-> sorted_table[Len(sorted_table)][1],
             tn_table |-> PyAdd(sorted_table[Len(sorted_table)][4], CA)]
  ELSE LET hit == PyGe(sorted_table[i][3], nozzle_od)
       IN  IF IsExc(hit) THEN hit
           ELSE IF hit.bool /\ sorted_table[i][3] # nozzle_od
           THEN [locals   |-> {"nps", "dn", "od", "thickness", "tn_table"},
                 nps      |-> sorted_table[i][1],
                 tn_table |-> PyAdd(sorted_table[i][4], CA)]
           ELSE ScanTableStrict(sorted_table, i + 1, nozzle_od, CA)

\* the for/else loop over sorted_table from iteration i on: the local names it
\* leaves bound, the value of nps and tn_table, or the exception it raises
RECURSIVE ScanTable(_, _, _, _)
ScanTable(sorted_table, i, nozzle_od, CA) ==
  IF i > Len(sorted_table)
  THEN IF Len(sorted_table) = 0
       THEN [exc |-> "IndexError", msg |-> "list index out of range"]
       ELSE [locals   |-> {"nps", "dn", "od", "thickness", "tn_table"},
             nps      |-> sorted_table[Len(sorted_table)][1],
             tn_table |-> PyAdd(sorted_table[Len(sorted_table)][4], CA)]
  ELSE LET hit == PyGe(sorted_table[i][3], nozzle_od)
       IN  IF IsExc(hit) THEN hit
           ELSE IF hit.bool
           THEN [locals   |-> {"nps", "dn", "od", "thickness", "tn_table"},
                 nps      |-> sorted_table[i][1],
                 tn_table |-> PyAdd(sorted_table[i][4], CA)]
           ELSE ScanTable(sorted_table, i + 1, nozzle_od, CA)

UG45NozzleThickness ==
  /\ pc = "ug45"
  /\ LET loop == ScanTable(SortedByOd(UG45_TABLE), 1, Get(inputs, "nozzle_od"), Get(inputs, "CA"))
     IN  IF IsExc(loop) THEN Raise(loop)
         ELSE IF IsExc(loop.tn_table) THEN Raise(loop.tn_table)
         ELSE LET required == PyMax(results.calculations["nozzle"].required, loop.tn_table)
                  status   == PyGe(Get(inputs, "tn"),
                                   PyMax(results.calculations["nozzle"].required, loop.tn_table))
                  matched_size == IF "nps" \in loop.locals
                                  THEN "NPS " \o loop.nps ELSE "NPS 12+"
              IN  IF IsExc(required) THEN Raise(required)
                  ELSE IF IsExc(status) THEN Raise(status)
                  ELSE /\ results' = [results EXCEPT !.ug45 =
                                        [required |-> required, actual |-> Get(inputs, "tn"),
                                         status |-> status.bool, matched_size |-> matched_size]]
                       /\ pc' = "stress"
                       /\ UNCHANGED <<inputs, raised, previous>>

StressAnalysis ==
  /\ pc = "stress"
  /\ LET ret == perform_stress_analysis(inputs)
     IN  IF IsExc(ret) THEN Raise(ret)
         ELSE /\ results' = Update(results, ret)
              /\ pc' = "load"
              /\ UNCHANGED <<inputs, raised, previous>>

LoadAnalysis ==
  /\ pc = "load"
  /\ LET ret == perform_load_analysis(inputs)
     IN  IF IsExc(ret) THEN Raise(ret)
         ELSE /\ results' = Update(results, ret)
              /\ pc' = "final"
              /\ UNCHANGED <<inputs, raised, previous>>

\* results.get('loads', {}).get('status', False)
LoadStatus(res) ==
  LET loads == IF "loads" \in DOMAIN res THEN res["loads"] ELSE EmptyDict
  IN  IF "status" \in DOMAIN loads THEN loads["status"] ELSE FALSE

\* Compliant without the load criterion
CompliantNoLoad(res, in) ==
  LET shell  == PyLe(Get(res["stresses"], "shell"), Get(in, "S_shell"))
      head   == PyLe(Get(res["stresses"], "head"), Get(in, "S_head"))
      nozzle == PyLe(Get(res["stresses"], "nozzle"), Get(in, "S_nozzle"))
  IN  IF IsExc(shell) THEN shell
      ELSE IF IsExc(head) THEN head
      ELSE IF IsExc(nozzle) THEN nozzle
      ELSE PyBool(/\ res["ug16"]["shell"].status
                  /\ res["ug16"]["head"].status
                  /\ res["ug16"]["nozzle"].status
                  /\ res["ug45"].status
                  /\ shell.bool
                  /\ head.bool
                  /\ nozzle.bool)

\* the value of all([...]), or the exception raised while the list is built
Compliant(res, in) ==
  LET shell  == PyLe(Get(res["stresses"], "shell"), Get(in, "S_shell"))
      head   == PyLe(Get(res["stresses"], "head"), Get(in, "S_head"))
      nozzle == PyLe(Get(res["stresses"], "nozzle"), Get(in, "S_nozzle"))
  IN  IF IsExc(shell) THEN shell
      ELSE IF IsExc(head) THEN head
      ELSE IF IsExc(nozzle) THEN nozzle
      ELSE PyBool(/\ res["ug16"]["shell"].status
                  /\ res["ug16"]["head"].status
                  /\ res["ug16"]["nozzle"].status
                  /\ res["ug45"].status
                  /\ shell.bool
                  /\ head.bool
                  /\ nozzle.bool
                  /\ LoadStatus(res))

FinalCompliance ==
  /\ pc = "final"
  /\ LET verdict == Compliant(results, inputs)
     IN  IF IsExc(verdict) THEN Raise(verdict)
         ELSE /\ results' = SetItem(results, "compliant", verdict.bool)
              /\ pc' = "done"
              /\ UNCHANGED <<inputs, raised, previous>>

\* except Exception: pass
ExceptPass ==
  /\ pc = "except"
  /\ raised' = NoneVal
  /\ pc' = "done"
  /\ UNCHANGED <<inputs, results, previous>>

\* except Exception as e: results['errors'].append(f"Calculation error: {str(e)}")
Except ==
  /\ pc = "except"
  /\ results' = [results EXCEPT !.errors = Append(@, "Calculation error: " \o raised.msg)]
  /\ raised' = NoneVal
  /\ pc' = "done"
  /\ UNCHANGED <<inputs, previous>>

(***************************************************************************)
(* The input records the evaluation is started on.                         *)
(***************************************************************************)
\* most fields a record may lack
MaxMissing == 2

\* nozzle_od ranges over the table's od column and 0, 10, .., 10 * MaxOdStep
MaxOdStep == 40

\* custom_min ranges over -1 .. MaxCustom
MaxCustom == 7

Base ==
  [P_int |-> R(2, 1), D |-> R(1000, 1), d |-> R(200, 1), t |-> R(12, 1), tn |-> R(10, 1),
   th_head |-> R(12, 1), CA |-> R(15, 10), nozzle_od |-> R(1143, 10),
   E_shell |-> R(1, 1), E_head |-> R(1, 1), E_nozzle |-> R(1, 1),
   S_shell |-> R(138, 1), S_head |-> R(138, 1), S_nozzle |-> R(118, 1),
   equipment_type |-> "Pressure Vessel (Standard)", head_type |-> "Ellipsoidal",
   Fx |-> R(0, 1), Fy |-> R(0, 1), Fz |-> R(0, 1),
   Mx |-> R(0, 1), My |-> R(0, 1), Mz |-> R(0, 1),
   service_type |-> "Water", custom_min_enabled |-> FALSE, custom_min |-> R(0, 1)]

RequiredSet == {required_keys[i] : i \in 1..Len(required_keys)}

NumericKeys ==
  RequiredSet \ {"equipment_type", "head_type", "service_type", "custom_min_enabled"}

RECURSIVE SubsetsUpTo(_, _)
SubsetsUpTo(S, k) ==
  IF k = 0 THEN {{}}
  ELSE LET prev == SubsetsUpTo(S, k - 1)
       IN  prev \cup {m \cup {x} : m \in prev, x \in S}

Without(rec, M) == [k \in DOMAIN rec \ M |-> rec[k]]

\* records lacking up to MaxMissing fields, and the record with no field
MissingInputs ==
  {Without(Base, M) : M \in SubsetsUpTo(RequiredSet, MaxMissing)} \cup {Without(Base, RequiredSet)}

\* records with None in one numeric field, the override on or off
NoneInputs ==
  {[Base EXCEPT ![k] = NoneVal, !["custom_min_enabled"] = b] : k \in NumericKeys, b \in BOOLEAN}

ThicknessValues == {R(1, 1), R(3, 2), R(3, 1), R(6, 1), R(12, 1)}

ThicknessInputs ==
  {[Base EXCEPT !["t"] = a, !["th_head"] = b, !["tn"] = c, !["CA"] = ca] :
     a \in ThicknessValues, b \in ThicknessValues, c \in ThicknessValues,
     ca \in {R(0, 1), R(3, 2)}}

PressureValues ==
  {R(0, 1), R(1, 1), R(2, 1), R(115, 1), R(150, 1), R(230, 1), R(300, 1), R(1380, 1), R(2000, 1)}

PressureInputs ==
  {[Base EXCEPT !["P_int"] = p, !["head_type"] = h,
                !["E_shell"] = e, !["E_head"] = e, !["E_nozzle"] = e] :
     p \in PressureValues,
     h \in {"Hemispherical", "Ellipsoidal", "Torispherical", "Flat"},
     e \in {R(1, 1), R(85, 100), R(0, 1)}}

UG16Inputs ==
  {[Base EXCEPT !["equipment_type"] = e, !["service_type"] = s,
                !["custom_min_enabled"] = b, !["custom_min"] = R(c, 1)] :
     e \in DOMAIN UG16_MINIMUMS \cup {"Heat Exchanger"},
     s \in {"Water", "Compressed Air", "Steam", "Other"},
     b \in BOOLEAN, c \in -1..MaxCustom}

NozzleOdValues ==
  {UG45_TABLE[i][3] : i \in 1..Len(UG45_TABLE)} \cup {R(10 * k, 1) : k \in 0..MaxOdStep}

MatcherInputs ==
  {[Base EXCEPT !["nozzle_od"] = od, !["tn"] = tn, !["CA"] = ca, !["S_nozzle"] = s] :
     od \in NozzleOdValues, tn \in {R(5, 1), R(7, 1), R(10, 1), R(13, 1)},
     ca \in {R(0, 1), R(3, 2)}, s \in {R(118, 1), R(20, 1)}}

LoadInputs ==
  {[Base EXCEPT !["Fx"] = R(fx, 1), !["Fy"] = R(fy, 1), !["Fz"] = R(fz, 1),
                !["Mx"] = R(mx, 1), !["My"] = R(my, 1), !["Mz"] = R(mz, 1),
                !["d"] = R(d, 1), !["S_nozzle"] = R(s, 1)] :
     fx \in {0, 3}, fy \in {0, 4}, fz \in {-4, 0, 4, 200},
     mx \in {0, 3}, my \in {0, 4}, mz \in {0, 5},
     d \in {0, 2}, s \in {2, 118}}

InputRecords ==
  MissingInputs \cup NoneInputs \cup ThicknessInputs \cup PressureInputs
    \cup UG16Inputs \cup MatcherInputs \cup LoadInputs

\* no call of calculate_asme_compliance has returned yet
NoCall == [called |-> FALSE]

Init ==
  /\ inputs \in InputRecords
  /\ results = InitialResults
  /\ pc = "validate"
  /\ raised = NoneVal
  /\ previous = NoCall

Next ==
  \/ Validate
  \/ ShellCalculations
  \/ HeadCalculations
  \/ NozzleCalculations
  \/ UG16MinimumThickness
  \/ UG45NozzleThickness
  \/ StressAnalysis
  \/ LoadAnalysis
  \/ FinalCompliance
  \/ Except

Spec == Init /\ [][Next]_vars

(***************************************************************************)
(* A second call of calculate_asme_compliance, on a record that differs    *)
(* from the first one in Mz only; previous keeps the report of the first.  *)
(***************************************************************************)
MzValues == {R(0, 1), R(5, 1), R(-7, 1), NoneVal}

CallAgain(mz) ==
  /\ pc = "done"
  /\ previous = NoCall
  /\ DOMAIN Base \subseteq DOMAIN inputs
  /\ mz # inputs["Mz"]
  /\ previous' = [called |-> TRUE, returned |-> results]
  /\ inputs' = [inputs EXCEPT !["Mz"] = mz]
  /\ results' = InitialResults
  /\ pc' = "validate"
  /\ raised' = NoneVal

NextMz ==
  \/ Next
  \/ \E mz \in MzValues : CallAgain(mz)

SpecMz == Init /\ [][NextMz]_vars

(***************************************************************************)
(* Properties.                                                             *)
(***************************************************************************)
Done == pc = "done"

AllPresent == DOMAIN Base \subseteq DOMAIN inputs

HasVerdict == "compliant" \in DOMAIN results

Populated ==
  /\ DOMAIN results["calculations"] = {"shell", "head", "nozzle"}
  /\ DOMAIN results["ug16"] = {"shell", "head", "nozzle", "reference"}
  /\ DOMAIN results["ug45"] = {"required", "actual", "status", "matched_size"}
  /\ DOMAIN results["stresses"] = {"shell", "head", "nozzle"}
  /\ DOMAIN results["loads"] = {"axial", "bending", "shear", "equivalent", "allowable", "status"}

NothingComputed ==
  /\ results["calculations"] = EmptyDict
  /\ results["ug16"] = EmptyDict
  /\ results["ug45"] = EmptyDict
  /\ results["stresses"] = EmptyDict
  /\ results["loads"] = EmptyDict

\* C1: when the evaluation ends with a verdict, the verdict is the conjunction
\* of the three UG-16 pass flags, the UG-45 pass flag, the three comparisons
\* stress <= allowable stress and the load pass flag of the report.
C1_VerdictIsConjunction ==
  (Done /\ HasVerdict) =>
    results["compliant"] =
      (/\ results["ug16"]["shell"].status
       /\ results["ug16"]["head"].status
       /\ results["ug16"]["nozzle"].status
       /\ results["ug45"].status
       /\ RatLe(results["stresses"]["shell"], inputs["S_shell"])
       /\ RatLe(results["stresses"]["head"], inputs["S_head"])
       /\ RatLe(results["stresses"]["nozzle"], inputs["S_nozzle"])
       /\ results["loads"].status)

\* a verdict that is false for the load criterion alone
C1_Witness ==
  /\ Done /\ HasVerdict /\ ~results["compliant"]
  /\ results["ug16"]["shell"].status
  /\ results["ug16"]["head"].status
  /\ results["ug16"]["nozzle"].status
  /\ results["ug45"].status
  /\ RatLe(results["stresses"]["shell"], inputs["S_shell"])
  /\ RatLe(results["stresses"]["head"], inputs["S_head"])
  /\ RatLe(results["stresses"]["nozzle"], inputs["S_nozzle"])
  /\ ~results["loads"].status

\* C2: the evaluation ends with no exception in flight, the report holds the
\* errors and warnings lists, and the verdict with all five populated sections
\* is present exactly when the error list is empty.
C2_ReportContract ==
  /\ {"errors", "warnings"} \subseteq DOMAIN results
  /\ Done =>
       /\ raised = NoneVal
       /\ (results["errors"] = <<>>) <=> (HasVerdict /\ Populated)
       /\ (results["errors"] # <<>>) => ~HasVerdict

\* an evaluation that ends with an error after the stress section was filled
C2_Witness ==
  /\ Done /\ AllPresent
  /\ results["errors"] # <<>>
  /\ DOMAIN results["stresses"] = {"shell", "head", "nozzle"}
  /\ results["loads"] = EmptyDict

\* the names of required_keys from position i on that the record lacks, each
\* after the first preceded by a comma and a blank
RECURSIVE C3_Names(_, _)
C3_Names(i, first) ==
  IF i > Len(required_keys) THEN ""
  ELSE IF required_keys[i] \in DOMAIN inputs THEN C3_Names(i + 1, first)
  ELSE (IF first THEN "" ELSE ", ") \o required_keys[i] \o C3_Names(i + 1, FALSE)

\* C3: an evaluation of a record that lacks required fields ends with the one
\* error message that lists exactly the lacking field names, comma-separated,
\* with every section empty and no verdict.
C3_MissingFieldsNamed ==
  (Done /\ ~AllPresent) =>
    /\ results["errors"] = <<"Calculation error: Missing inputs: " \o C3_Names(1, TRUE)>>
    /\ \A f \in DOMAIN Base :
         (DOMAIN inputs = DOMAIN Base \ {f}) =>
           results["errors"] = <<"Calculation error: Missing inputs: " \o f>>
    /\ NothingComputed
    /\ ~HasVerdict

\* the evaluation of a record that lacks two fields has ended
C3_Witness ==
  /\ Done
  /\ Cardinality(DOMAIN Base \ DOMAIN inputs) = 2
  /\ Len(results["errors"]) = 1

AllNumeric == \A k \in NumericKeys : k \in DOMAIN inputs /\ IsNum(inputs[k])

Zero == R(0, 1)

Corroded(k) == RatSub(inputs[k], inputs["CA"])

HasError(text) == \E i \in DOMAIN results["errors"] : results["errors"][i] = text

StressDivisorZero ==
  \/ RatMul(Corroded("t"), inputs["E_shell"]) = Zero
  \/ RatMul(Corroded("th_head"), inputs["E_head"]) = Zero
  \/ RatMul(Corroded("tn"), inputs["E_nozzle"]) = Zero

LoadDivisorZero == inputs["d"] = Zero \/ Corroded("tn") = Zero

\* C4: when the stress analyzer divides by zero in an evaluation that reached
\* it, the report lists a stress-analysis error and the load analyzer has still
\* run (its section is filled or its own error is listed); when only the load
\* analyzer divides by zero, the report lists a load-analysis error and keeps
\* the stress section.
C4_AnalyzerErrorsRecorded ==
  (Done /\ AllPresent /\ AllNumeric /\ results["ug45"] # EmptyDict) =>
    /\ StressDivisorZero =>
         /\ HasError("Stress analysis error: division by zero")
         /\ \/ results["loads"] # EmptyDict
            \/ HasError("Load analysis error: division by zero")
    /\ (LoadDivisorZero /\ ~StressDivisorZero) =>
         /\ HasError("Load analysis error: division by zero")
         /\ DOMAIN results["stresses"] = {"shell", "head", "nozzle"}

\* C5: an evaluation of a complete record in which a corroded thickness is zero
\* or negative ends with a non-empty error list and without a verdict.
C5_NonPositiveThicknessIsError ==
  (/\ Done /\ AllPresent /\ AllNumeric
   /\ \/ RatLe(Corroded("t"), Zero)
      \/ RatLe(Corroded("th_head"), Zero)
      \/ RatLe(Corroded("tn"), Zero)) =>
    (results["errors"] # <<>> /\ ~HasVerdict)

\* the denominators of the thickness formulas for the record evaluated
ShellDenominator ==
  RatSub(RatMul(RatMul(Int2R(2), inputs["S_shell"]), inputs["E_shell"]),
         RatMul(R(12, 10), inputs["P_int"]))

HeadDenominator ==
  IF inputs["head_type"] = "Hemispherical"
  THEN RatSub(RatMul(RatMul(Int2R(4), inputs["S_head"]), inputs["E_head"]),
              RatMul(R(4, 10), inputs["P_int"]))
  ELSE IF inputs["head_type"] = "Ellipsoidal"
  THEN RatSub(RatMul(RatMul(Int2R(2), inputs["S_head"]), inputs["E_head"]),
              RatMul(R(2, 10), inputs["P_int"]))
  ELSE RatSub(RatMul(inputs["S_head"], inputs["E_head"]), RatMul(R(1, 10), inputs["P_int"]))

NozzleDenominator ==
  RatSub(RatMul(RatMul(Int2R(2), inputs["S_nozzle"]), inputs["E_nozzle"]),
         RatMul(R(12, 10), inputs["P_int"]))

\* C6: an evaluation of a complete record in which the denominator of a
\* thickness formula is zero or negative ends with a non-empty error list and
\* without a verdict, and no report with a verdict holds a negative required
\* thickness.
C6_DegenerateFormulaIsError ==
  /\ (/\ Done /\ AllPresent /\ AllNumeric
      /\ \/ RatLe(ShellDenominator, Zero)
         \/ RatLe(HeadDenominator, Zero)
         \/ RatLe(NozzleDenominator, Zero)) =>
       (results["errors"] # <<>> /\ ~HasVerdict)
  /\ (Done /\ HasVerdict) =>
       \A c \in {"shell", "head", "nozzle"} :
         RatLe(Zero, results["calculations"][c].required)

RatMax(a, b) == IF RatLt(a, b) THEN b ELSE a

TableIndex == 1..Len(UG45_TABLE)

\* the table entry with the smallest od that is >= the target nozzle_od
IsSmallestCover(i) ==
  /\ RatLe(inputs["nozzle_od"], UG45_TABLE[i][3])
  /\ \A j \in TableIndex :
       RatLe(inputs["nozzle_od"], UG45_TABLE[j][3]) => RatLe(UG45_TABLE[i][3], UG45_TABLE[j][3])

\* results['ug45'] agrees with the table entry i matched under label
MatchedAs(i, label) ==
  LET table_required == RatAdd(UG45_TABLE[i][4], inputs["CA"])
      required == RatMax(results["calculations"]["nozzle"].required, table_required)
  IN  /\ results["ug45"].matched_size = label
      /\ results["ug45"].required = required
      /\ results["ug45"].status = RatLe(required, inputs["tn"])

\* C7: for a target nozzle_od that some table entry covers, the reinforcement
\* section is that of the entry with the smallest od >= nozzle_od: its label,
\* required = max(formula nozzle thickness, its wall thickness + CA), and
\* status true iff the nominal tn >= required.
C7_SmallestCoveringEntry ==
  (/\ results["ug45"] # EmptyDict
   /\ \E j \in TableIndex : RatLe(inputs["nozzle_od"], UG45_TABLE[j][3])) =>
    \E i \in TableIndex :
      IsSmallestCover(i) /\ MatchedAs(i, "NPS " \o UG45_TABLE[i][1])

\* a target equal to a table od, where the formula thickness exceeds the
\* table thickness and the nominal tn falls short of it
C7_Witness ==
  /\ results["ug45"] # EmptyDict
  /\ inputs["nozzle_od"] = R(8890, 100)
  /\ results["ug45"].matched_size = "NPS 3"
  /\ RatLt(RatAdd(R(480, 100), inputs["CA"]), results["ug45"].required)
  /\ ~results["ug45"].status

\* C8: for a target nozzle_od above every table od, the reinforcement section
\* is that of the largest entry under the fallback label "NPS 12+".
C8_FallbackLabel ==
  (/\ results["ug45"] # EmptyDict
   /\ \A j \in TableIndex : RatLt(UG45_TABLE[j][3], inputs["nozzle_od"])) =>
    MatchedAs(Len(UG45_TABLE), "NPS 12+")

\* C9 as stated: the target 100.0 matches the entry labelled 4 (od 114.30,
\* wall 5.27).
C9_Target100Matches4 ==
  (results["ug45"] # EmptyDict /\ inputs["nozzle_od"] = R(100, 1)) =>
    (UG45_TABLE[13][1] = "4" /\ MatchedAs(13, "NPS 4"))

\* C9 amended: the target 100.0 matches the entry labelled 3 1/2 (od 101.60,
\* wall 5.02), the first entry with od >= 100.0, and no entry with a smaller od.
C9_Target100Matches3Half ==
  (results["ug45"] # EmptyDict /\ inputs["nozzle_od"] = R(100, 1)) =>
    /\ UG45_TABLE[12] = <<"3 1/2", 90, R(10160, 100), R(502, 100)>>
    /\ MatchedAs(12, "NPS 3 1/2")
    /\ RatLt(UG45_TABLE[11][3], inputs["nozzle_od"])

C9_Witness ==
  /\ Done /\ HasVerdict
  /\ inputs["nozzle_od"] = R(100, 1)
  /\ results["ug45"].matched_size = "NPS 3 1/2"

\* the three contributions to the UG-16 minimum for the record evaluated
EquipmentMinimum ==
  CASE inputs["equipment_type"] = "Pressure Vessel (Standard)" -> R(3, 2)
    [] inputs["equipment_type"] = "Unfired Steam Boiler" -> R(127, 20)
    [] OTHER -> Zero

ServiceMinimum ==
  IF inputs["service_type"] \in {"Water", "Compressed Air", "Steam"} THEN R(5, 2) ELSE Zero

OverrideValue == IF inputs["custom_min_enabled"] THEN inputs["custom_min"] ELSE Zero

EquipmentClause == "UG-16 for " \o inputs["equipment_type"]

ServiceClause == "UG-16(b) for " \o inputs["service_type"]

OverrideClause == "Custom specified minimum"

ExpectedReference ==
  LET e == RatLt(Zero, EquipmentMinimum)
      s == RatLt(Zero, ServiceMinimum)
      o == RatLt(Zero, OverrideValue)
  IN  CASE e /\ s /\ o    -> EquipmentClause \o " + " \o ServiceClause \o " + " \o OverrideClause
        [] e /\ s /\ ~o   -> EquipmentClause \o " + " \o ServiceClause
        [] e /\ ~s /\ o   -> EquipmentClause \o " + " \o OverrideClause
        [] e /\ ~s /\ ~o  -> EquipmentClause
        [] ~e /\ s /\ o   -> ServiceClause \o " + " \o OverrideClause
        [] ~e /\ s /\ ~o  -> ServiceClause
        [] ~e /\ ~s /\ o  -> OverrideClause
        [] OTHER          -> "No UG-16 requirement"

\* C10: the resolved UG-16 minimum is the maximum of the equipment minimum, the
\* service minimum and the override value (0 when its flag is off); the
\* justification joins with " + ", in the order equipment, service, override,
\* the clauses of the strictly positive contributions, and is the sentinel
\* "No UG-16 requirement" iff none is positive.
C10_ResolvedMinimum ==
  (results["ug16"] # EmptyDict) =>
    LET m == RatMax(RatMax(EquipmentMinimum, ServiceMinimum), OverrideValue)
    IN  /\ \A c \in {"shell", "head", "nozzle"} : results["ug16"][c].required = m
        /\ results["ug16"].reference = ExpectedReference
        /\ (results["ug16"].reference = "No UG-16 requirement") <=>
             (/\ ~RatLt(Zero, EquipmentMinimum)
              /\ ~RatLt(Zero, ServiceMinimum)
              /\ ~RatLt(Zero, OverrideValue))
        /\ (/\ inputs["equipment_type"] = "Unfired Steam Boiler"
            /\ inputs["service_type"] = "Water"
            /\ ~inputs["custom_min_enabled"]) =>
             (/\ m = R(635, 100)
              /\ results["ug16"].reference =
                   "UG-16 for Unfired Steam Boiler + UG-16(b) for Water")

\* equipment and service in force and an override above both
C10_Witness ==
  /\ results["ug16"] # EmptyDict
  /\ inputs["equipment_type"] = "Unfired Steam Boiler"
  /\ inputs["service_type"] = "Steam"
  /\ inputs["custom_min_enabled"]
  /\ results["ug16"]["shell"].required = R(7, 1)
  /\ results["ug16"].reference =
       "UG-16 for Unfired Steam Boiler + UG-16(b) for Steam + Custom specified minimum"

\* the end-to-end scenario: P=2.0, D=1000, t=12, th_head=12, d=200, tn=10,
\* nozzle_od=114.3, CA=1.5, S_shell=S_head=138, S_nozzle=118, all E 1.0,
\* "Pressure Vessel (Standard)", "Water", "Ellipsoidal", all loads 0, override
\* disabled (whatever the disabled custom_min holds)
IsScenario ==
  /\ AllPresent
  /\ ~inputs["custom_min_enabled"]
  /\ [inputs EXCEPT !["custom_min"] = Zero] =
       [P_int |-> R(2, 1), D |-> R(1000, 1), d |-> R(200, 1), t |-> R(12, 1),
        tn |-> R(10, 1), th_head |-> R(12, 1), CA |-> R(15, 10),
        nozzle_od |-> R(1143, 10),
        E_shell |-> R(1, 1), E_head |-> R(1, 1), E_nozzle |-> R(1, 1),
        S_shell |-> R(138, 1), S_head |-> R(138, 1), S_nozzle |-> R(118, 1),
        equipment_type |-> "Pressure Vessel (Standard)", head_type |-> "Ellipsoidal",
        Fx |-> Zero, Fy |-> Zero, Fz |-> Zero, Mx |-> Zero, My |-> Zero, Mz |-> Zero,
        service_type |-> "Water", custom_min_enabled |-> FALSE, custom_min |-> Zero]

\* C11: the evaluation of the end-to-end scenario ends with an empty error
\* list, shell actual thickness 10.5 not less than the shell required
\* thickness, the three UG-16 flags, the UG-45 flag and the load flag true,
\* every stress <= its allowable stress, and the verdict Compliant.
C11_ScenarioCompliant ==
  (Done /\ IsScenario) =>
    /\ results["errors"] = <<>>
    /\ HasVerdict /\ Populated
    /\ results["calculations"]["shell"].actual = R(105, 10)
    /\ RatLe(results["calculations"]["shell"].required,
             results["calculations"]["shell"].actual)
    /\ results["ug16"]["shell"].status
    /\ results["ug16"]["head"].status
    /\ results["ug16"]["nozzle"].status
    /\ results["ug45"].status
    /\ RatLe(results["stresses"]["shell"], R(138, 1))
    /\ RatLe(results["stresses"]["head"], R(138, 1))
    /\ RatLe(results["stresses"]["nozzle"], R(118, 1))
    /\ results["loads"].status
    /\ results["compliant"]

\* the scenario has been evaluated; its shell required thickness is 1250/171,
\* about 7.31
C11_Witness ==
  /\ Done /\ IsScenario
  /\ HasVerdict
  /\ results["calculations"]["shell"].required = R(1250, 171)

\* C12: when a record holding every required field has been evaluated and a
\* record that differs from it in Mz only is evaluated next, the second report
\* equals the first (load stresses, load flag, error list, verdict and all).
C12_MzDoesNotInfluence ==
  (Done /\ previous.called) => results = previous.returned

\* two evaluations with a verdict, non-zero load stresses and different Mz
C12_Witness ==
  /\ Done /\ previous.called
  /\ HasVerdict
  /\ inputs["Mz"] = R(-7, 1)
  /\ RatLt(Zero, results["loads"].equivalent)
  /\ ~results["loads"].status

====
